---- MODULE Spec2Model ----
(***************************************************************************)
(* passport-openam: the OpenAmStrategy authentication handshake            *)
(* (lib/passport-openam/strategy.js, kept here as src/unnamed/part_000).   *)
(*                                                                         *)
(* Encoding of JavaScript values.  Every primitive value is a flat tuple   *)
(* of strings, so that any two of them can be compared:                    *)
(*   - a JS string is the tuple of its characters ("ab" is <<"a","b">>,    *)
(*     the empty string is <<>>);                                          *)
(*   - undefined, null, true, false, functions and Error objects are       *)
(*     tuples whose first element is a tag longer than one character.      *)
(* JS objects (req, options, the strategy, a profile) are records.         *)
(***************************************************************************)
EXTENDS Integers, Sequences, FiniteSets, TLC

\* ctor        : "new" before the constructor ran, then "constructed" or "threw"
\* ctorOptions : the options the constructor was given
\* ctorThrown  : the exception the constructor threw (Undefined if none)
\* strategy    : the strategy object (UndefinedObj while there is none)
\* st          : per authenticate invocation, the request's handshake state
VARIABLES ctor, ctorOptions, ctorThrown, strategy, st

vars == <<ctor, ctorOptions, ctorThrown, strategy, st>>

-----------------------------------------------------------------------------
(* Bounds *)

\* number of authenticate invocations the model tracks
NumReqs == 2

Reqs == 1..NumReqs

-----------------------------------------------------------------------------
(* JavaScript values *)

Undefined == <<"undefined">>
Null      == <<"null">>
True      == <<"true">>
False     == <<"false">>
\* a function object, by its declared number of arguments (Function.length)
Function0 == <<"function", "length=0">>
Function1 == <<"function", "length=1">>
Function2 == <<"function", "length=2">>
\* an object slot holding null
NullObj == [null |-> TRUE]

\* an object slot holding undefined (req.query without a query parser, ...)
UndefinedObj == [undefined |-> TRUE]
\* the global object, which is `this` in a plainly called function
GlobalObject == [global |-> TRUE]

\* ToBoolean: undefined, null, false and the empty string are falsy
Truthy(v) == v \notin {Undefined, Null, False, <<>>}

\* a || b
Or(a, b) == IF Truthy(a) THEN a ELSE b

\* obj.key on an object that may lack the key (or be undefined && guarded)
Get(obj, key) == IF key \in DOMAIN obj THEN obj[key] ELSE Undefined

\* typeof v == 'function'
IsFunction(v) == Len(v) > 0 /\ v[1] = "function"

\* f.length, the number of arguments a function declares
FunctionLength(f) ==
  IF f = Function2 THEN 2 ELSE IF f = Function1 THEN 1 ELSE 0

-----------------------------------------------------------------------------
(* Strings *)

\* what String.prototype.trim removes: WhiteSpace and LineTerminator of
\* ECMAScript.  Characters that have no escape here are written by their
\* code point.
Whitespace ==
  {" ", "\t", "\n", "\r", "\f", "U+000B", "U+00A0", "U+FEFF", "U+1680",
   "U+2000", "U+2001", "U+2002", "U+2003", "U+2004", "U+2005", "U+2006",
   "U+2007", "U+2008", "U+2009", "U+200A", "U+2028", "U+2029", "U+202F",
   "U+205F", "U+3000"}

RECURSIVE TrimLeft(_)
TrimLeft(s) ==
  IF s # <<>> /\ Head(s) \in Whitespace THEN TrimLeft(Tail(s)) ELSE s

RECURSIVE TrimRight(_)
TrimRight(s) ==
  IF s # <<>> /\ s[Len(s)] \in Whitespace
    THEN TrimRight(SubSeq(s, 1, Len(s) - 1))
    ELSE s

\* String.prototype.trim
Trim(s) == TrimRight(TrimLeft(s))

\* String.prototype.split(sep) for a one-character separator: the pieces
\* between the separators, in order; a string without sep is one piece
RECURSIVE Split(_, _)
Split(s, sep) ==
  IF \E i \in 1..Len(s) : s[i] = sep
    THEN LET i == CHOOSE k \in 1..Len(s) :
                    s[k] = sep /\ \A j \in 1..(k - 1) : s[j] # sep
         IN  <<SubSeq(s, 1, i - 1)>> \o Split(SubSeq(s, i + 1, Len(s)), sep)
    ELSE <<s>>

\* "a=b; c=d" from the pieces <<"a=b", "c=d">>
RECURSIVE Join(_, _)
Join(pieces, sep) ==
  IF Len(pieces) = 0 THEN <<>>
  ELSE IF Len(pieces) = 1 THEN pieces[1]
  ELSE pieces[1] \o sep \o Join(Tail(pieces), sep)

-----------------------------------------------------------------------------
(* url.parse(u).protocol (node's url module) *)

\* what url.parse removes from both ends of its argument: every character
\* below U+0021, U+00A0 and U+FEFF (written as in Whitespace)
UrlWhitespace ==
  {" ", "\t", "\n", "\r", "\f", "U+00A0", "U+FEFF",
   "U+0000", "U+0001", "U+0002", "U+0003", "U+0004", "U+0005", "U+0006",
   "U+0007", "U+0008", "U+000B", "U+000E", "U+000F", "U+0010", "U+0011",
   "U+0012", "U+0013", "U+0014", "U+0015", "U+0016", "U+0017", "U+0018",
   "U+0019", "U+001A", "U+001B", "U+001C", "U+001D", "U+001E", "U+001F"}

RECURSIVE UrlTrimLeft(_)
UrlTrimLeft(s) ==
  IF s # <<>> /\ Head(s) \in UrlWhitespace THEN UrlTrimLeft(Tail(s)) ELSE s

RECURSIVE UrlTrimRight(_)
UrlTrimRight(s) ==
  IF s # <<>> /\ s[Len(s)] \in UrlWhitespace
    THEN UrlTrimRight(SubSeq(s, 1, Len(s) - 1))
    ELSE s

UrlTrim(s) == UrlTrimRight(UrlTrimLeft(s))

ProtocolChars ==
  {"a","b","c","d","e","f","g","h","i","j","k","l","m","n","o","p","q","r",
   "s","t","u","v","w","x","y","z","A","B","C","D","E","F","G","H","I","J",
   "K","L","M","N","O","P","Q","R","S","T","U","V","W","X","Y","Z","0","1",
   "2","3","4","5","6","7","8","9",".","+","-"}

\* protocolPattern = /^[a-z0-9.+-]+:/i matches the (trimmed) url
HasProtocol(u) ==
  LET s == UrlTrim(u)
  IN  \E i \in 2..Len(s) :
        s[i] = ":" /\ \A j \in 1..(i - 1) : s[j] \in ProtocolChars

-----------------------------------------------------------------------------
(* Cookie header parsing, strategy.js lines 113-117 *)

ProtoName == <<"_","_","p","r","o","t","o","_","_">>

\* Object.prototype itself, as a value: an object without own keys
ObjectPrototypeValue == <<"object", "[object Object]", "own keys: ">>

\* what an object literal inherits from Object.prototype: the member's name
\* and its value (methods by their length; __proto__ reads the prototype)
ObjectPrototype ==
  { <<<<"c","o","n","s","t","r","u","c","t","o","r">>, Function1>>,
    <<<<"t","o","S","t","r","i","n","g">>, Function0>>,
    <<<<"t","o","L","o","c","a","l","e","S","t","r","i","n","g">>, Function0>>,
    <<<<"v","a","l","u","e","O","f">>, Function0>>,
    <<<<"h","a","s","O","w","n","P","r","o","p","e","r","t","y">>, Function1>>,
    <<<<"i","s","P","r","o","t","o","t","y","p","e","O","f">>, Function1>>,
    <<<<"p","r","o","p","e","r","t","y","I","s","E","n","u","m","e","r","a","b","l","e">>, Function1>>,
    <<<<"_","_","d","e","f","i","n","e","G","e","t","t","e","r","_","_">>, Function2>>,
    <<<<"_","_","d","e","f","i","n","e","S","e","t","t","e","r","_","_">>, Function2>>,
    <<<<"_","_","l","o","o","k","u","p","G","e","t","t","e","r","_","_">>, Function1>>,
    <<<<"_","_","l","o","o","k","u","p","S","e","t","t","e","r","_","_">>, Function1>>,
    <<ProtoName, ObjectPrototypeValue>> }

InheritedNames == { m[1] : m \in ObjectPrototype }
Inherited(name) == (CHOOSE m \in ObjectPrototype : m[1] = name)[2]

\* one step of the forEach: cookies[parts[0].trim()] = (parts[1] || '').trim()
\* cookies holds the object's own keys.  Assigning a string to __proto__
\* goes to the setter of Object.prototype, which ignores it: no key is made.
SetCookie(cookies, cookie) ==
  LET parts == Split(cookie, "=")
      name  == Trim(parts[1])
      value == Trim(Or(IF Len(parts) >= 2 THEN parts[2] ELSE Undefined, <<>>))
  IN  IF name = ProtoName THEN cookies
      ELSE [n \in (DOMAIN cookies) \cup {name} |->
              IF n = name THEN value ELSE cookies[n]]

RECURSIVE ForEachCookie(_, _)
ForEachCookie(cookies, pieces) ==
  IF pieces = <<>> THEN cookies
  ELSE ForEachCookie(SetCookie(cookies, Head(pieces)), Tail(pieces))

\* var cookies = {}; req.headers.cookie.split(';').forEach(...)
\* the result maps each cookie name (a string) to its value
ParseCookies(header) ==
  ForEachCookie([n \in {} |-> <<>>], Split(header, ";"))

\* cookies[name]: the own key, else what Object.prototype holds by that name
CookieValue(cookies, name) ==
  IF name \in DOMAIN cookies THEN cookies[name]
  ELSE IF name \in InheritedNames THEN Inherited(name)
  ELSE Undefined

-----------------------------------------------------------------------------
(* The openam client library (external collaborator) *)

\* new OpenAm(baseUrl, realm, cookieName)
OpenAm(baseUrl, realm, cookieName) ==
  [baseUrl |-> baseUrl, realm |-> realm, cookieName |-> cookieName]

\* openam.getLoginUiUrl(params): the provider's login page address, carrying
\* the parameters.  The library is not part of this repository; the address
\* is kept symbolic: the client it was built by and the goto parameter.
getLoginUiUrl(openam, params) ==
  <<"LoginUiUrl", "base=">> \o openam.baseUrl \o <<"realm=">> \o openam.realm
     \o <<"goto=">> \o params.goto

-----------------------------------------------------------------------------
(* Input values *)

BaseUrl     == <<"h","t","t","p",":","/","/","a","m","/">>
AbsCallback == <<"h","t","t","p",":","/","/","a","p","p","/","c","b">>
RelCallback == <<"/","c","b">>
OtherCallback == <<"h","t","t","p","s",":","/","/","b","/","x">>
\* a callback url whose host url.parse rejects
InvalidCallback == <<"h","t","t","p",":","/","/","x","n","-","-","/">>
\* Whether url.parse accepts the host of a url is the answer of node's url
\* module (its IDNA conversion), which authenticate is handed as invalidUrl.
\* These are the callback urls of the input sets that it rejects.
RejectedUrls == {InvalidCallback}
DefaultRealm == <<"/">>
OtherRealm   == <<"/","r">>
DefaultCookieName ==
  <<"i","P","l","a","n","e","t","D","i","r","e","c","t","o","r","y","P","r","o">>
OtherCookieName == <<"s","i","d">>

\* the options objects handed to the constructor
CtorOptions ==
  {UndefinedObj} \cup
  [openAmBaseUrl    : {Undefined, <<>>, BaseUrl},
   callbackUrl      : {Undefined, <<>>, AbsCallback, RelCallback},
   openAmRealm      : {Undefined, OtherRealm},
   openAmCookieName : {Undefined, OtherCookieName},
   skipUserProfile  : {Undefined, True, Function0, Function2},
   openAmLoginPage  : {Undefined, False}]

\* name=value pieces of a Cookie header
DefaultTok123 == DefaultCookieName \o <<"=","t","o","k","1","2","3">>
OtherX        == <<"o","t","h","e","r","=","x">>
SidPadded     == <<"s","i","d","\t","="," ","a","b","\r","\n">>
ProtoX        == ProtoName \o <<"=","x">>
SidAb         == <<"s","i","d","=","a","b">>
SidCd         == <<"s","i","d","=","c","d">>
SidWithEquals == <<"s","i","d","=","a","=","b">>
SidEmpty      == <<"s","i","d","=">>
SidBare       == <<"s","i","d">>

\* req.headers.cookie: absent, or name=value pieces joined by "; "
CookieHeaders ==
  {Undefined, <<>>} \cup
  { Join(ps, <<";", " ">>) :
      ps \in { <<OtherX>>,
               <<DefaultTok123, OtherX>>,
               <<OtherX, SidPadded>>,
               <<ProtoX, SidAb>>,
               <<SidWithEquals>>,
               <<SidEmpty, OtherX>>,
               <<SidBare>>,
               <<SidAb, SidEmpty>>,
               <<DefaultTok123, SidCd>> } }

\* req.query: absent (no query parser ran), or the parsed parameters
Queries ==
  {UndefinedObj} \cup
  [error : {Undefined, <<>>, <<"d","e","n","i","e","d">>},
   code  : {Undefined, <<>>, <<"t","r","u","e">>}]

Requests == [query : Queries, headers : [cookie : CookieHeaders]]

\* the second argument of authenticate
AuthOptions ==
  {UndefinedObj} \cup
  [callbackUrl : {OtherCallback, RelCallback, InvalidCallback}]

-----------------------------------------------------------------------------
(* Constructor, strategy.js lines 63-80 *)

CtorError(message) == <<"Error", message>>

\* (variant: the callbackUrl check is left out)
OpenAmStrategyThrows_NoCallbackUrlCheck(options) ==
  IF ~Truthy(Get(options, "openAmBaseUrl"))
    THEN CtorError("OpenAmStrategy requires a openAmBaseUrl option")
  ELSE Undefined

\* the exception the constructor throws for these options, or Undefined
OpenAmStrategyThrows(options) ==
  IF ~Truthy(Get(options, "openAmBaseUrl"))
    THEN CtorError("OpenAmStrategy requires a openAmBaseUrl option")
  ELSE IF ~Truthy(Get(options, "callbackUrl"))
    THEN CtorError("OpenAmStrategy requires a callbackUrl option")
  ELSE Undefined

\* (x === undefined) ? dflt : x
Default(x, dflt) == IF x = Undefined THEN dflt ELSE x

\* the strategy object a successful construction leaves
NewStrategy(options) ==
  LET realm      == Default(Get(options, "openAmRealm"), DefaultRealm)
      cookieName == Default(Get(options, "openAmCookieName"), DefaultCookieName)
  IN  [name             |-> "openam",
       _openAmRealm      |-> realm,
       _openAmCookieName |-> cookieName,
       _openam           |-> OpenAm(Get(options, "openAmBaseUrl"), realm, cookieName),
       _callbackUrl      |-> Get(options, "callbackUrl"),
       _skipUserProfile  |-> Default(Get(options, "skipUserProfile"), False),
       _openAmLoginPage  |-> Default(Get(options, "openAmLoginPage"), True)]

\* new OpenAmStrategy(options, verify); options = options || {}
OpenAmStrategy(options) ==
  /\ ctor = "new"
  /\ ctorOptions' = options
  /\ ctorThrown' = OpenAmStrategyThrows(options)
  /\ IF OpenAmStrategyThrows(options) # Undefined
       THEN /\ ctor' = "threw"
            /\ strategy' = UndefinedObj
       ELSE /\ ctor' = "constructed"
            /\ strategy' = NewStrategy(options)
  /\ UNCHANGED st

-----------------------------------------------------------------------------
(* Per-request state *)

\* no call made / no answer received yet
None == [none |-> TRUE]
\* the skip decision has not been taken yet
Unresolved == <<"unresolved">>

\* the state of an authenticate invocation that has not started
\*   pc          : "idle", the asynchronous callback the request waits for
\*                 ("isTokenValid", "skipUserProfile", "getAttributes",
\*                 "verify"), or "done" when nothing is pending
\*   req, options: the arguments of authenticate
\*   callbackUrl, token : its local variables
\*   outcomes    : the redirect/success/fail/error calls made, in order
\*   thrown      : exceptions that left the strategy's code uncaught
\*   calls, args : how often each collaborator was invoked, and with what
\*   answers     : what each collaborator called back with; skip is the
\*                 value the skip option resolved to
IdleState ==
  [pc          |-> "idle",
   req         |-> None,
   options     |-> None,
   callbackUrl |-> Undefined,
   token       |-> Undefined,
   outcomes    |-> <<>>,
   thrown      |-> <<>>,
   calls       |-> [isTokenValid |-> 0, skipUserProfile |-> 0,
                    getAttributes |-> 0, verify |-> 0],
   args        |-> [isTokenValid |-> Undefined, skipUserProfile |-> Undefined,
                    getAttributes |-> Undefined, verify |-> None],
   answers     |-> [isTokenValid |-> Undefined, skipUserProfile |-> None,
                    skip |-> Unresolved, getAttributes |-> None,
                    verify |-> None]]

\* a handler's result: the request's new state and the exception the handler
\* raised to its caller (Undefined when it returned normally)
Returned(s)  == [s |-> s, exc |-> Undefined]
Raised(s, e) == [s |-> s, exc |-> e]

\* an exception reaches the code that called into the strategy
Uncaught(r) ==
  IF r.exc = Undefined THEN r.s
  ELSE [r.s EXCEPT !.thrown = Append(@, r.exc)]

-----------------------------------------------------------------------------
(* passport.Strategy's outcome channels *)

Outcome(kind, a, b) == [kind |-> kind, a |-> a, b |-> b]

redirect(s, location) ==
  [s EXCEPT !.outcomes = Append(@, Outcome("redirect", location, Undefined))]
success(s, user, info) ==
  [s EXCEPT !.outcomes = Append(@, Outcome("success", user, info))]
fail(s, info) ==
  [s EXCEPT !.outcomes = Append(@, Outcome("fail", info, Undefined))]
error(s, err) ==
  [s EXCEPT !.outcomes = Append(@, Outcome("error", err, Undefined))]

-----------------------------------------------------------------------------
(* Errors *)

ReferenceError == <<"ReferenceError", "callbackURL is not defined">>
TypeErrorSplit ==
  <<"TypeError", "Cannot read properties of undefined (reading 'split')">>
TypeErrorLoginUiUrl ==
  <<"TypeError",
    "Cannot read properties of undefined (reading 'getLoginUiUrl')">>
TypeErrorTokenId ==
  <<"TypeError", "Cannot read properties of undefined (reading 'tokenid')">>
TypeErrorTokenIdNull ==
  <<"TypeError", "Cannot read properties of null (reading 'tokenid')">>
\* what url.parse throws for a url whose host has no ASCII form
TypeErrorInvalidUrl == <<"TypeError", "Invalid URL">>
\* what reading data.tokenid raises when data is undefined or null
ReadTokenIdThrows(data) ==
  IF data = UndefinedObj THEN TypeErrorTokenId
  ELSE IF data = NullObj THEN TypeErrorTokenIdNull
  ELSE Undefined

\* new InternalOpenAmError(message, err): an error that keeps its cause
InternalOpenAmError(message, err) ==
  <<"InternalOpenAmError", message, "cause:">> \o err

-----------------------------------------------------------------------------
(* The application's verify function *)

VerifyError     == <<"Error", "verify failed">>
VerifyException == <<"Error", "verify threw">>
User            == <<"object", "user">>
Info            == <<"object", "info">>

\* What one invocation of verify does with its continuation:
\*   "sync"       calls it before returning
\*   "syncThrow"  calls it, then throws
\*   "throw"      throws and never calls it
\*   "async"      returns, the continuation is called later
\*   "asyncThrow" arranges the later call, then throws
VerifyBehaviours ==
  [mode : {"sync", "syncThrow"},
   err  : {Null, VerifyError}, user : {False, User}, info : {Undefined, Info}]
  \cup
  [mode : {"throw", "async", "asyncThrow"},
   err  : {Null}, user : {False}, info : {Undefined}]

\* (variant: the user is looked at before the error)
VerifyContinuation_UserFirst(s, err, user, info) ==
  LET s1 == [s EXCEPT !.answers.verify =
                         [err |-> err, user |-> user, info |-> info]]
  IN  IF ~Truthy(user) THEN fail(s1, info)
      ELSE IF Truthy(err) THEN error(s1, err)
      ELSE success(s1, user, info)

\* (variant: the user is not looked at)
VerifyContinuation_NoUserCheck(s, err, user, info) ==
  LET s1 == [s EXCEPT !.answers.verify =
                         [err |-> err, user |-> user, info |-> info]]
  IN  IF Truthy(err) THEN error(s1, err)
      ELSE success(s1, user, info)

\* function(err, user, info) { ... }, strategy.js lines 124-128
VerifyContinuation(s, err, user, info) ==
  LET s1 == [s EXCEPT !.answers.verify =
                         [err |-> err, user |-> user, info |-> info]]
  IN  IF Truthy(err) THEN error(s1, err)
      ELSE IF ~Truthy(user) THEN fail(s1, info)
      ELSE success(s1, user, info)

\* self._verify(req, token, profile, function(err, user, info) {...})
CallVerify(s, profile, vb) ==
  LET s1 == [s EXCEPT !.calls.verify = @ + 1,
                      !.args.verify  = [req |-> s.req, token |-> s.token,
                                        profile |-> profile]]
      s2 == IF vb.mode \in {"sync", "syncThrow"}
              THEN VerifyContinuation(s1, vb.err, vb.user, vb.info)
              ELSE s1
      s3 == [s2 EXCEPT !.pc = IF vb.mode \in {"async", "asyncThrow"}
                                THEN "verify" ELSE @]
  IN  IF vb.mode \in {"syncThrow", "throw", "asyncThrow"}
        THEN Raised(s3, VerifyException)
        ELSE Returned(s3)

\* function(err, profile) { ... }, the callback authenticate hands to
\* _loadUserProfile, strategy.js lines 122-129
LoadUserProfileDone(s, err, profile, vb) ==
  IF Truthy(err) THEN Returned(error(s, err))
  ELSE CallVerify(s, profile, vb)

-----------------------------------------------------------------------------
(* Profile retrieval, strategy.js lines 184-203 *)

TransportError == <<"Error", "ECONNREFUSED">>

\* attribute mappings the provider may answer with
FullAttributes ==
  [tokenid   |-> <<"t","1">>,
   uid       |-> <<"b","o","b">>,
   cn        |-> <<"B","o","b"," ","S">>,
   sn        |-> <<"S">>,
   givenname |-> <<"B","o","b">>,
   mail      |-> <<"b","@","x">>]
PartialAttributes ==
  [uid |-> <<"b","o","b">>, cn |-> <<"B","o","b">>, role |-> <<"a","d","m">>]

\* what getAttributes may call back with: (err, data)
AttributeAnswers ==
  { [err |-> TransportError, data |-> UndefinedObj],
    [err |-> Null, data |-> UndefinedObj],
    [err |-> Null, data |-> NullObj],
    [err |-> Null, data |-> FullAttributes],
    [err |-> Null, data |-> PartialAttributes] }

\* the body of the try block, lines 188-197
Profile(data) ==
  [id          |-> Get(data, "tokenid"),
   username    |-> Get(data, "uid"),
   displayName |-> Get(data, "cn"),
   name        |-> [familyName |-> Get(data, "sn"),
                    givenName  |-> Get(data, "givenname")],
   email       |-> Get(data, "mail"),
   _raw        |-> data]

\* (variant: a fetch error is not looked at, the data is mapped anyway)
GetAttributesCallback_ErrIgnored(s, err, data, vb) ==
  LET s1 == [s EXCEPT !.answers.getAttributes = [err |-> err, data |-> data]]
  IN  IF ReadTokenIdThrows(data) # Undefined
        THEN LoadUserProfileDone(s1, ReadTokenIdThrows(data), UndefinedObj, vb)
      ELSE LET r == LoadUserProfileDone(s1, Null, Profile(data), vb)
           IN  IF r.exc # Undefined
                 THEN LoadUserProfileDone(r.s, r.exc, UndefinedObj, vb)
                 ELSE r

\* (variant: the mapping is not wrapped in try/catch)
GetAttributesCallback_NoTry(s, err, data, vb) ==
  LET s1 == [s EXCEPT !.answers.getAttributes = [err |-> err, data |-> data]]
  IN  IF Truthy(err)
        THEN LoadUserProfileDone(s1,
               InternalOpenAmError("failed to get attributes", err),
               UndefinedObj, vb)
      ELSE IF ReadTokenIdThrows(data) # Undefined
        THEN Raised(s1, ReadTokenIdThrows(data))
      ELSE LoadUserProfileDone(s1, Null, Profile(data), vb)

\* function(err, data) { ... }, the callback userProfile hands to
\* getAttributes; done is authenticate's profile callback
GetAttributesCallback(s, err, data, vb) ==
  LET s1 == [s EXCEPT !.answers.getAttributes = [err |-> err, data |-> data]]
  IN  IF Truthy(err)
        THEN LoadUserProfileDone(s1,
               InternalOpenAmError("failed to get attributes", err),
               UndefinedObj, vb)
      ELSE IF ReadTokenIdThrows(data) # Undefined
        \* data.tokenid throws inside the try block: catch(e) { done(e) }
        THEN LoadUserProfileDone(s1, ReadTokenIdThrows(data), UndefinedObj, vb)
      ELSE LET r == LoadUserProfileDone(s1, Null, Profile(data), vb)
           IN  \* done(null, profile) is inside the try block as well: what
               \* it raises is caught and handed to done a second time
               IF r.exc # Undefined
                 THEN LoadUserProfileDone(r.s, r.exc, UndefinedObj, vb)
                 ELSE r

\* this._openam.getAttributes(token, function(err, data) {...})
userProfile(s, tok) ==
  Returned([s EXCEPT !.pc = "getAttributes",
                     !.calls.getAttributes = @ + 1,
                     !.args.getAttributes  = tok])

-----------------------------------------------------------------------------
(* Profile resolution, strategy.js lines 153-175 *)

\* loadIt and skipIt
loadIt(s, tok) == userProfile(s, tok)
skipIt(s, vb)  == LoadUserProfileDone(s, Null, UndefinedObj, vb)

\* (variant: the profile is fetched whatever the skip option says)
loadUserProfile_AlwaysLoad(self, s, tok, skipRet, vb) ==
  LET skip == IF IsFunction(self._skipUserProfile)
                THEN skipRet ELSE self._skipUserProfile
  IN  loadIt([s EXCEPT !.answers.skip = skip], tok)

\* skipRet is what a synchronous skip predicate returns when called
loadUserProfile(self, s, tok, skipRet, vb) ==
  IF IsFunction(self._skipUserProfile)
       /\ FunctionLength(self._skipUserProfile) > 1
    THEN \* async
         Returned([s EXCEPT !.pc = "skipUserProfile",
                            !.calls.skipUserProfile = @ + 1,
                            !.args.skipUserProfile  = tok])
    ELSE LET skip == IF IsFunction(self._skipUserProfile)
                       THEN skipRet ELSE self._skipUserProfile
             s1   == [s EXCEPT
                        !.calls.skipUserProfile =
                           IF IsFunction(self._skipUserProfile) THEN @ + 1 ELSE @,
                        !.answers.skip = skip]
         IN  IF ~Truthy(skip) THEN loadIt(s1, tok) ELSE skipIt(s1, vb)

\* (variant: the predicate's error is not looked at)
SkipUserProfileCallback_ErrIgnored(s, tok, err, skip, vb) ==
  LET s1 == [s EXCEPT !.answers.skipUserProfile = [err |-> err, skip |-> skip]]
      s2 == [s1 EXCEPT !.answers.skip = skip]
  IN  IF ~Truthy(skip) THEN loadIt(s2, tok) ELSE skipIt(s2, vb)

\* function(err, skip) { ... }, lines 165-169
SkipUserProfileCallback(s, tok, err, skip, vb) ==
  LET s1 == [s EXCEPT !.answers.skipUserProfile = [err |-> err, skip |-> skip]]
      s2 == [s1 EXCEPT !.answers.skip = skip]
  IN  IF Truthy(err) THEN LoadUserProfileDone(s1, err, UndefinedObj, vb)
      ELSE IF ~Truthy(skip) THEN loadIt(s2, tok)
      ELSE skipIt(s2, vb)

-----------------------------------------------------------------------------
(* authenticate, strategy.js lines 94-144 *)

CodeTrue == <<"?","c","o","d","e","=","t","r","u","e">>

\* lines 131-134 and 139-142: the redirect to the provider's login page.
\* thisObj is what `this` is bound to where the lines run.
RedirectToLogin(thisObj, s) ==
  LET params == [goto |-> s.callbackUrl \o CodeTrue]
  IN  IF "_openam" \in DOMAIN thisObj
        THEN Returned(redirect(s, getLoginUiUrl(thisObj._openam, params)))
        ELSE \* this._openam is undefined
             Raised(s, TypeErrorLoginUiUrl)

\* `this` inside function(bool) {...}: the openam client calls its callback
\* as a plain function, so it is not the strategy
IsTokenValidCallbackThis == GlobalObject

\* (variant: the profile is loaded whatever the provider answered)
IsTokenValidCallback_Ungated(self, s, bool, skipRet, vb) ==
  LET s1 == [s EXCEPT !.pc = "done", !.answers.isTokenValid = bool]
  IN  loadUserProfile(self, s1, s1.token, skipRet, vb)

\* function(bool) { ... }, lines 120-136
IsTokenValidCallback(self, s, bool, skipRet, vb) ==
  LET s1 == [s EXCEPT !.pc = "done", !.answers.isTokenValid = bool]
  IN  IF Truthy(bool)
        THEN loadUserProfile(self, s1, s1.token, skipRet, vb)
        ELSE RedirectToLogin(IsTokenValidCallbackThis, s1)

\* lines 112-143, once callbackUrl is resolved
AuthenticateCode(self, s) ==
  IF Truthy(Get(s.req.query, "code"))
    THEN IF s.req.headers.cookie = Undefined
           THEN \* req.headers.cookie.split
                Raised(s, TypeErrorSplit)
         ELSE LET cookies == ParseCookies(s.req.headers.cookie)
                  tok     == CookieValue(cookies, self._openAmCookieName)
              IN  IF Truthy(tok)
                    THEN Returned([s EXCEPT !.token = tok,
                                            !.pc = "isTokenValid",
                                            !.calls.isTokenValid = @ + 1,
                                            !.args.isTokenValid  = tok])
                    ELSE \* no else branch: authenticate returns
                         Returned(s)
    ELSE RedirectToLogin(self, s)

\* (variant: the error parameter is not looked at)
authenticate_NoErrorCheck(self, rq, options, invalidUrl) ==
  LET s0 == [IdleState EXCEPT !.pc = "done", !.req = rq, !.options = options]
      cb == Or(Get(options, "callbackUrl"), self._callbackUrl)
      s1 == [s0 EXCEPT !.callbackUrl = cb]
  IN  IF Truthy(cb) /\ invalidUrl
        THEN Raised(s1, TypeErrorInvalidUrl)
      ELSE IF Truthy(cb) /\ ~HasProtocol(cb)
        THEN Raised(s1, ReferenceError)
        ELSE AuthenticateCode(self, s1)

\* invalidUrl: url.parse throws for the callback url (line 105)
authenticate(self, rq, options, invalidUrl) ==
  LET s0 == [IdleState EXCEPT !.pc = "done", !.req = rq, !.options = options]
  IN  IF Truthy(Get(rq.query, "error")) THEN Returned(fail(s0, Undefined))
      ELSE LET cb == Or(Get(options, "callbackUrl"), self._callbackUrl)
               s1 == [s0 EXCEPT !.callbackUrl = cb]
           IN  IF Truthy(cb) /\ invalidUrl
                 \* line 105: url.parse throws
                 THEN Raised(s1, TypeErrorInvalidUrl)
               ELSE IF Truthy(cb) /\ ~HasProtocol(cb)
                 \* line 109 reads callbackURL, which is declared nowhere
                 THEN Raised(s1, ReferenceError)
                 ELSE AuthenticateCode(self, s1)

-----------------------------------------------------------------------------
(* Actions *)

\* the authenticate invocations Spec runs
SpecReqs == {1}

Init ==
  /\ ctor = "new"
  /\ ctorOptions = None
  /\ ctorThrown = Undefined
  /\ strategy = UndefinedObj
  /\ st = [r \in Reqs |-> IdleState]

\* (variant: the token is kept on the strategy object instead of in a local
\* variable, so every request in flight sees the token of the latest one)
Authenticate_TokenOnStrategy(r, rq, options, invalidUrl) ==
  /\ ctor = "constructed"
  /\ st[r].pc = "idle"
  /\ LET new == Uncaught(authenticate(strategy, rq, options, invalidUrl))
     IN  st' = [q \in Reqs |->
                  IF q = r THEN new
                  ELSE IF st[q].pc \notin {"idle", "done"}
                            /\ new.token # Undefined
                    THEN [st[q] EXCEPT !.token = new.token]
                  ELSE st[q]]
  /\ UNCHANGED <<ctor, ctorOptions, ctorThrown, strategy>>

\* passport calls strategy.authenticate(req, options)
Authenticate(r, rq, options, invalidUrl) ==
  /\ ctor = "constructed"
  /\ st[r].pc = "idle"
  /\ st' = [st EXCEPT ![r] =
              Uncaught(authenticate(strategy, rq, options, invalidUrl))]
  /\ UNCHANGED <<ctor, ctorOptions, ctorThrown, strategy>>

\* the openam client answers isTokenValid
IsTokenValid(r, bool, skipRet, vb) ==
  /\ st[r].pc = "isTokenValid"
  /\ st' = [st EXCEPT ![r] =
              Uncaught(IsTokenValidCallback(strategy, st[r], bool, skipRet, vb))]
  /\ UNCHANGED <<ctor, ctorOptions, ctorThrown, strategy>>

\* the application's asynchronous skip predicate answers
SkipUserProfile(r, err, skip, vb) ==
  /\ st[r].pc = "skipUserProfile"
  /\ st' = [st EXCEPT ![r] =
              Uncaught(SkipUserProfileCallback([st[r] EXCEPT !.pc = "done"],
                                               st[r].token, err, skip, vb))]
  /\ UNCHANGED <<ctor, ctorOptions, ctorThrown, strategy>>

\* the openam client answers getAttributes
GetAttributes(r, ans, vb) ==
  /\ st[r].pc = "getAttributes"
  /\ st' = [st EXCEPT ![r] =
              Uncaught(GetAttributesCallback([st[r] EXCEPT !.pc = "done"],
                                             ans.err, ans.data, vb))]
  /\ UNCHANGED <<ctor, ctorOptions, ctorThrown, strategy>>

\* the application's verify function calls its continuation later
Verify(r, err, user, info) ==
  /\ st[r].pc = "verify"
  /\ st[r].answers.verify = None
  /\ st' = [st EXCEPT ![r] =
              VerifyContinuation([st[r] EXCEPT !.pc = "done"], err, user, info)]
  /\ UNCHANGED <<ctor, ctorOptions, ctorThrown, strategy>>

\* url.parse's answer for the callback url a call with these options uses
UrlRejected(options) ==
  Or(Get(options, "callbackUrl"), Get(strategy, "_callbackUrl")) \in RejectedUrls

Construct == \E options \in CtorOptions : OpenAmStrategy(options)

Step(r) ==
  \/ \E rq \in Requests, options \in AuthOptions :
        Authenticate(r, rq, options, UrlRejected(options))
  \/ \E bool \in {True, False}, skipRet \in {True, False},
        vb \in VerifyBehaviours : IsTokenValid(r, bool, skipRet, vb)
  \/ \E err \in {Null, VerifyError}, skip \in {True, False},
        vb \in VerifyBehaviours : SkipUserProfile(r, err, skip, vb)
  \/ \E ans \in AttributeAnswers, vb \in VerifyBehaviours :
        GetAttributes(r, ans, vb)
  \/ \E err \in {Null, VerifyError}, user \in {False, User},
        info \in {Undefined, Info} : Verify(r, err, user, info)

Next == Construct \/ \E r \in SpecReqs : Step(r)

Spec == Init /\ [][Next]_vars

\* The callbacks handed to the openam client at lines 120 and 185 are run by
\* the event loop once the provider's answer is there.  Whether the
\* application's skip predicate and verify function ever call the callback
\* they are handed is the application's affair: nothing is assumed of them.
Fairness ==
  \A r \in SpecReqs :
    /\ WF_vars(\E bool \in {True, False}, skipRet \in {True, False},
                  vb \in VerifyBehaviours : IsTokenValid(r, bool, skipRet, vb))
    /\ WF_vars(\E ans \in AttributeAnswers, vb \in VerifyBehaviours :
                  GetAttributes(r, ans, vb))

FairSpec == Spec /\ Fairness

-----------------------------------------------------------------------------
(* State functions used by the properties *)

Started(r)     == st[r].pc # "idle"
Finished(r)    == st[r].pc = "done"
HasError(r)    == Truthy(Get(st[r].req.query, "error"))
HasCode(r)     == Truthy(Get(st[r].req.query, "code"))
NoCalls(r)     == /\ st[r].calls.isTokenValid = 0
                  /\ st[r].calls.skipUserProfile = 0
                  /\ st[r].calls.getAttributes = 0
                  /\ st[r].calls.verify = 0
\* options.callbackUrl if given, else the configured callbackUrl
EffectiveCallbackUrl(r) ==
  IF Truthy(Get(st[r].options, "callbackUrl"))
    THEN st[r].options.callbackUrl ELSE ctorOptions.callbackUrl
\* the effective callback URL is absolute and url.parse accepts it
AbsoluteCallbackUrl(r) ==
  /\ HasProtocol(EffectiveCallbackUrl(r))
  /\ EffectiveCallbackUrl(r) \notin RejectedUrls
\* the redirect to the login UI with goto = callbackUrl + "?code=true"
LoginRedirect(r) ==
  Outcome("redirect",
          getLoginUiUrl(strategy._openam,
                        [goto |-> EffectiveCallbackUrl(r) \o CodeTrue]),
          Undefined)
\* the request's Cookie header carries no (non-empty) session cookie
NoSessionCookie(r) ==
  \/ st[r].req.headers.cookie = Undefined
  \/ ~Truthy(CookieValue(ParseCookies(st[r].req.headers.cookie),
                         strategy._openAmCookieName))
\* verify was invoked and has given up its continuation without calling it
VerifyNeverAnswers(r) ==
  /\ st[r].calls.verify > 0
  /\ st[r].answers.verify = None
  /\ st[r].pc # "verify"

-----------------------------------------------------------------------------
(* C1 *)

\* C1: for one invocation of authenticate the strategy never signals more
\* than one of redirect, success, fail, error: the number of signalled
\* outcomes of a request is at most 1 in every reachable state.
C1_AtMostOneOutcome == \A r \in Reqs : Len(st[r].outcomes) <= 1

-----------------------------------------------------------------------------
(* C2 *)

\* the application's skip predicate and verify function do call the
\* callback they were handed: request r does not wait for them for ever
ApplicationAnswers(r) ==
  []<>(st[r].pc \notin {"skipUserProfile", "verify"})

\* C2: every started request eventually has an outcome signalled, given that
\* every pending provider callback is eventually called and that the skip
\* predicate and verify do call their callback.  A request that ended in an
\* uncaught exception is let through here, so that a violation is a request
\* that ends silently.
C2_EventuallyOutcome ==
  \A r \in Reqs :
    ApplicationAnswers(r)
      => [](Started(r) => <>(\/ Len(st[r].outcomes) > 0
                             \/ VerifyNeverAnswers(r)
                             \/ st[r].thrown # <<>>))

-----------------------------------------------------------------------------
(* C3 *)

\* C3: getAttributes and verify are invoked only after isTokenValid answered
\* true for the request's session token, and when the profile is not skipped
\* verify is invoked only after getAttributes completed successfully; the
\* cookie alone never leads to either call.
C3_StagesGated ==
  \A r \in Reqs :
    /\ (st[r].calls.getAttributes > 0 \/ st[r].calls.verify > 0)
         => /\ st[r].answers.isTokenValid = True
            /\ st[r].args.isTokenValid = st[r].token
            /\ Truthy(st[r].token)
    /\ (st[r].calls.verify > 0 /\ ~Truthy(st[r].answers.skip))
         => /\ st[r].calls.getAttributes > 0
            /\ st[r].answers.getAttributes # None
            /\ ~Truthy(st[r].answers.getAttributes.err)
            /\ st[r].answers.getAttributes.data \notin {UndefinedObj, NullObj}

\* a request whose profile was fetched and whose verify function was called
C3_Witness ==
  /\ st[1].answers.isTokenValid = True
  /\ st[1].calls.getAttributes = 1
  /\ st[1].calls.verify = 1

-----------------------------------------------------------------------------
(* C4 *)

\* C4: a request without a `code` parameter (and without an `error`
\* parameter, which is decided before) always ends in a redirect to the login
\* UI with goto = effective callback URL + "?code=true", with no provider
\* call and no verify call.
C4_NoCodeRedirects ==
  \A r \in Reqs :
    (Started(r) /\ ~HasError(r) /\ ~HasCode(r))
      => /\ st[r].outcomes = <<LoginRedirect(r)>>
         /\ st[r].thrown = <<>>
         /\ NoCalls(r)

-----------------------------------------------------------------------------
(* C5 *)

\* C5: a request with `code` but without the configured session cookie
\* (no Cookie header, no cookie of that name, or an empty value) ends in the
\* same login redirect as a request without `code`.  Stated for absolute
\* callback URLs, so that a violation is one of this path alone.
C5_NoCookieRedirects ==
  \A r \in Reqs :
    (Started(r) /\ ~HasError(r) /\ HasCode(r) /\ NoSessionCookie(r)
       /\ AbsoluteCallbackUrl(r))
      => /\ st[r].outcomes = <<LoginRedirect(r)>>
         /\ st[r].thrown = <<>>

-----------------------------------------------------------------------------
(* C6 *)

\* C6: when isTokenValid answers false the request ends in the login
\* redirect, never in fail, error or an uncaught exception, and neither
\* getAttributes nor verify is invoked.
C6_InvalidTokenRedirects ==
  \A r \in Reqs :
    st[r].answers.isTokenValid = False
      => /\ st[r].outcomes = <<LoginRedirect(r)>>
         /\ st[r].thrown = <<>>
         /\ st[r].calls.getAttributes = 0
         /\ st[r].calls.verify = 0

-----------------------------------------------------------------------------
(* C7 *)

\* the skip option resolved to true / to false
Skipped(r)    == st[r].answers.skip # Unresolved /\ Truthy(st[r].answers.skip)
NotSkipped(r) == st[r].answers.skip # Unresolved /\ ~Truthy(st[r].answers.skip)
\* getAttributes answered without error and with data
FetchSucceeded(r) ==
  /\ st[r].answers.getAttributes # None
  /\ ~Truthy(st[r].answers.getAttributes.err)
  /\ st[r].answers.getAttributes.data \notin {UndefinedObj, NullObj}
\* profile resolution completed without error
ProfileResolved(r) == Skipped(r) \/ FetchSucceeded(r)
\* the arguments verify is to be called with (the continuation left out)
ExpectedVerifyArgs(r) ==
  [req     |-> st[r].req,
   token   |-> st[r].token,
   profile |-> IF Skipped(r) THEN UndefinedObj
               ELSE Profile(st[r].answers.getAttributes.data)]

\* C7 as stated: once a request with a valid token is finished, getAttributes
\* was invoked exactly once (zero times if skipUserProfile resolved to true)
\* and verify exactly once, with (request, token, normalized profile).
C7_ExactlyOnce ==
  \A r \in Reqs :
    (st[r].answers.isTokenValid = True /\ Finished(r))
      => /\ st[r].calls.getAttributes = (IF Skipped(r) THEN 0 ELSE 1)
         /\ st[r].calls.verify = 1
         /\ st[r].args.verify = ExpectedVerifyArgs(r)

\* C7 amended: for a request with a valid token, getAttributes is invoked
\* exactly once when the skip option resolves to false and never otherwise
\* (it resolves to true, or the asynchronous predicate reports an error);
\* verify is invoked exactly once, with (request, token, profile), when
\* profile resolution succeeds and never when it fails.
C7_OncePerStage ==
  \A r \in Reqs :
    st[r].answers.isTokenValid = True
      => /\ st[r].calls.getAttributes = (IF NotSkipped(r) THEN 1 ELSE 0)
         /\ st[r].calls.verify = (IF ProfileResolved(r) THEN 1 ELSE 0)
         /\ st[r].calls.verify = 1
              => st[r].args.verify = ExpectedVerifyArgs(r)

\* a valid token, one fetch, one verify call with the normalized profile
C7_Witness ==
  /\ st[1].answers.isTokenValid = True
  /\ Finished(1)
  /\ st[1].calls.getAttributes = 1
  /\ st[1].calls.verify = 1
  /\ st[1].args.verify.token = st[1].token
  /\ st[1].args.verify.profile = Profile(FullAttributes)

-----------------------------------------------------------------------------
(* C8 *)

\* the outcome the continuation's arguments call for
Disposition(a) ==
  IF Truthy(a.err) THEN Outcome("error", a.err, Undefined)
  ELSE IF ~Truthy(a.user) THEN Outcome("fail", a.info, Undefined)
  ELSE Outcome("success", a.user, a.info)

\* C8: once the verify continuation was called with (err, user, info), the
\* outcome it signalled is Error(err) if err is set, else Fail(info) if user
\* is falsy, else Success(user, info); no other success, fail or redirect is
\* signalled for the request.
C8_VerifyDecides ==
  \A r \in Reqs :
    st[r].answers.verify # None
      => LET d == Disposition(st[r].answers.verify)
         IN  /\ \E i \in DOMAIN st[r].outcomes : st[r].outcomes[i] = d
             /\ \A j \in DOMAIN st[r].outcomes :
                  st[r].outcomes[j].kind \in {"success", "fail", "redirect"}
                    => st[r].outcomes[j] = d

\* the continuation was called with an error and a user: the error wins
C8_Witness ==
  /\ st[1].answers.verify # None
  /\ st[1].answers.verify.err = VerifyError
  /\ st[1].answers.verify.user = User
  /\ st[1].outcomes = <<Outcome("error", VerifyError, Undefined)>>

-----------------------------------------------------------------------------
(* C9 *)

\* C9: a request carrying an `error` query parameter (req.query.error set to
\* a non-empty value) is failed at once with no info, whatever its `code`
\* and cookies: no redirect, and no isTokenValid, getAttributes or verify
\* call.
C9_ErrorParamFails ==
  \A r \in Reqs :
    (Started(r) /\ HasError(r))
      => /\ st[r].outcomes = <<Outcome("fail", Undefined, Undefined)>>
         /\ st[r].thrown = <<>>
         /\ Finished(r)
         /\ NoCalls(r)

\* an error parameter on a request that also has a code and a session cookie
C9_Witness ==
  /\ Started(1)
  /\ HasError(1)
  /\ HasCode(1)
  /\ st[1].req.headers.cookie # Undefined
  /\ ~NoSessionCookie(1)
  /\ st[1].outcomes = <<Outcome("fail", Undefined, Undefined)>>

-----------------------------------------------------------------------------
(* C10 *)

\* C10: construction throws an error exactly when openAmBaseUrl or
\* callbackUrl is missing, and then there is no strategy and no request is
\* ever processed; otherwise it succeeds and every omitted option has its
\* default: realm "/", cookie name "iPlanetDirectoryPro", skipUserProfile
\* false, openAmLoginPage true.
C10_Construction ==
  LET given(k) == Get(ctorOptions, k)
  IN  /\ ctor # "new"
        => (ctor = "threw" <=> (~Truthy(given("openAmBaseUrl"))
                                  \/ ~Truthy(given("callbackUrl"))))
      /\ ctor = "threw"
        => /\ ctorThrown # Undefined
           /\ ctorThrown[1] = "Error"
           /\ strategy = UndefinedObj
      /\ \A r \in Reqs : Started(r) => ctor = "constructed"
      /\ ctor = "constructed"
        => /\ ctorThrown = Undefined
           /\ strategy._callbackUrl = given("callbackUrl")
           /\ strategy._openam.baseUrl = given("openAmBaseUrl")
           /\ given("openAmRealm") = Undefined
                => /\ strategy._openAmRealm = <<"/">>
                   /\ strategy._openam.realm = <<"/">>
           /\ given("openAmCookieName") = Undefined
                => /\ strategy._openAmCookieName = DefaultCookieName
                   /\ strategy._openam.cookieName = DefaultCookieName
           /\ given("skipUserProfile") = Undefined
                => strategy._skipUserProfile = False
           /\ given("openAmLoginPage") = Undefined
                => strategy._openAmLoginPage = True

\* a construction with a base URL but no callback URL has thrown
C10_Witness ==
  /\ ctor = "threw"
  /\ Get(ctorOptions, "openAmBaseUrl") = BaseUrl
  /\ Get(ctorOptions, "callbackUrl") = Undefined
  /\ ctorThrown = CtorError("OpenAmStrategy requires a callbackUrl option")


-----------------------------------------------------------------------------
(* C11 *)

\* C11: when the effective callback URL is relative it is qualified before
\* use: the callback URL the request works with (and puts into goto) has a
\* protocol, no exception leaves authenticate, and a request without `code`
\* still ends in its redirect.
C11_RelativeQualified ==
  \A r \in Reqs :
    (Started(r) /\ ~HasError(r) /\ ~HasProtocol(EffectiveCallbackUrl(r)))
      => /\ st[r].thrown = <<>>
         /\ HasProtocol(st[r].callbackUrl)
         /\ ~HasCode(r)
              => /\ Len(st[r].outcomes) = 1
                 /\ st[r].outcomes[1].kind = "redirect"

-----------------------------------------------------------------------------
(* C12 *)

\* the cause an InternalOpenAmError keeps
ErrorCause(e) == SubSeq(e, 4, Len(e))

\* C12: when getAttributes calls back with an error, the request ends with
\* the single outcome Error(InternalOpenAmError wrapping that error); no
\* fail, redirect or success is signalled, verify is not invoked, and the
\* fetch is not made again.
C12_FetchFailureIsError ==
  \A r \in Reqs :
    (st[r].answers.getAttributes # None
       /\ Truthy(st[r].answers.getAttributes.err))
      => /\ Finished(r)
         /\ Len(st[r].outcomes) = 1
         /\ st[r].outcomes[1].kind = "error"
         /\ st[r].outcomes[1].a[1] = "InternalOpenAmError"
         /\ ErrorCause(st[r].outcomes[1].a) = st[r].answers.getAttributes.err
         /\ st[r].thrown = <<>>
         /\ st[r].calls.verify = 0
         /\ st[r].calls.getAttributes = 1

\* a valid token, no skip, and a fetch that failed with a transport error
C12_Witness ==
  /\ st[1].answers.isTokenValid = True
  /\ NotSkipped(1)
  /\ st[1].answers.getAttributes # None
  /\ st[1].answers.getAttributes.err = TransportError
  /\ st[1].outcomes =
       <<Outcome("error",
                 InternalOpenAmError("failed to get attributes", TransportError),
                 Undefined)>>


-----------------------------------------------------------------------------
(* C13 *)

\* C13: with skipUserProfile = true and a valid token, verify
\* receives profile = null and getAttributes is never invoked.
C13_ProfileIsNull ==
  \A r \in Reqs :
    (ctor = "constructed" /\ strategy._skipUserProfile = True
       /\ st[r].answers.isTokenValid = True)
      => /\ st[r].calls.verify = 1
         /\ st[r].args.verify.profile = NullObj
         /\ st[r].calls.getAttributes = 0

-----------------------------------------------------------------------------
(* C14 *)

\* C14: a skipUserProfile function of two arguments is invoked once, with the
\* request's validated token; an error it reports ends the request with
\* Error(that error) and neither getAttributes nor verify is invoked; on
\* skip = true verify gets no profile and getAttributes is not invoked; on
\* skip = false the profile is fetched with getAttributes.
C14_AsyncSkip ==
  \A r \in Reqs :
    (ctor = "constructed" /\ strategy._skipUserProfile = Function2)
      => LET s   == st[r]
             ans == s.answers.skipUserProfile
         IN  /\ s.calls.skipUserProfile =
                  (IF s.answers.isTokenValid = True THEN 1 ELSE 0)
             /\ s.calls.skipUserProfile = 1
                  => s.args.skipUserProfile = s.args.isTokenValid
             /\ ans = None
                  => s.calls.getAttributes = 0 /\ s.calls.verify = 0
             /\ (ans # None /\ Truthy(ans.err))
                  => /\ s.outcomes = <<Outcome("error", ans.err, Undefined)>>
                     /\ s.calls.getAttributes = 0
                     /\ s.calls.verify = 0
                     /\ Finished(r)
             /\ (ans # None /\ ~Truthy(ans.err) /\ Truthy(ans.skip))
                  => /\ s.calls.getAttributes = 0
                     /\ s.calls.verify = 1
                     /\ s.args.verify.profile = UndefinedObj
             /\ (ans # None /\ ~Truthy(ans.err) /\ ~Truthy(ans.skip))
                  => /\ s.calls.getAttributes = 1
                     /\ s.args.getAttributes = s.args.isTokenValid

\* the asynchronous predicate reported an error (together with skip = true)
C14_Witness ==
  /\ ctor = "constructed"
  /\ strategy._skipUserProfile = Function2
  /\ st[1].answers.skipUserProfile # None
  /\ st[1].answers.skipUserProfile.err = VerifyError
  /\ st[1].answers.skipUserProfile.skip = True
  /\ st[1].outcomes = <<Outcome("error", VerifyError, Undefined)>>


-----------------------------------------------------------------------------
(* C15 *)

\* the position of the first "=" of a name=value piece (0 if there is none)
FirstEquals(piece) ==
  IF \E i \in 1..Len(piece) : piece[i] = "="
    THEN CHOOSE i \in 1..Len(piece) :
           piece[i] = "=" /\ \A j \in 1..(i - 1) : piece[j] # "="
    ELSE 0
\* the name of a piece, and its value: all that follows the first "="
PieceName(piece) ==
  Trim(IF FirstEquals(piece) = 0 THEN piece
       ELSE SubSeq(piece, 1, FirstEquals(piece) - 1))
PieceValue(piece) ==
  Trim(IF FirstEquals(piece) = 0 THEN <<>>
       ELSE SubSeq(piece, FirstEquals(piece) + 1, Len(piece)))
\* the pieces of a Cookie header that carry the cookie `name`
PiecesNamed(header, name) ==
  LET pieces == Split(header, ";")
  IN  {i \in DOMAIN pieces : PieceName(pieces[i]) = name}
\* the header carries the session cookie once, with a value
HasOneSessionCookie(r) ==
  /\ st[r].req.headers.cookie # Undefined
  /\ Cardinality(PiecesNamed(st[r].req.headers.cookie,
                             strategy._openAmCookieName)) = 1
  /\ \A i \in PiecesNamed(st[r].req.headers.cookie, strategy._openAmCookieName) :
       PieceValue(Split(st[r].req.headers.cookie, ";")[i]) # <<>>
SessionCookieValue(r) ==
  LET pieces == Split(st[r].req.headers.cookie, ";")
      i == CHOOSE k \in PiecesNamed(st[r].req.headers.cookie,
                                    strategy._openAmCookieName) : TRUE
  IN  PieceValue(pieces[i])

\* C15: when the Cookie header carries the configured session cookie, the
\* token handed to isTokenValid, and later to getAttributes and verify, is
\* that cookie's value with the surrounding whitespace removed, also for a
\* value that contains "=".
C15_TokenIsCookieValue ==
  \A r \in Reqs :
    (Started(r) /\ ~HasError(r) /\ HasCode(r)
       /\ AbsoluteCallbackUrl(r) /\ HasOneSessionCookie(r))
      => /\ st[r].calls.isTokenValid = 1
         /\ st[r].args.isTokenValid = SessionCookieValue(r)
         /\ st[r].calls.getAttributes > 0
              => st[r].args.getAttributes = SessionCookieValue(r)
         /\ st[r].calls.verify > 0
              => st[r].args.verify.token = SessionCookieValue(r)


-----------------------------------------------------------------------------
(* C16 *)

\* the profile verify was given maps the fetched attributes field by field
MappedFields(profile, data) ==
  /\ profile.id = Get(data, "tokenid")
  /\ profile.username = Get(data, "uid")
  /\ profile.displayName = Get(data, "cn")
  /\ profile.name.familyName = Get(data, "sn")
  /\ profile.name.givenName = Get(data, "givenname")
  /\ profile.email = Get(data, "mail")

\* C16: the profile maps tokenid, uid, cn, sn, givenname and mail
\* to id, username, displayName, name.familyName, name.givenName and email,
\* and keeps the complete raw mapping under rawAttributes; absent attributes
\* give undefined fields, not an error.
C16_RawAttributes ==
  \A r \in Reqs :
    FetchSucceeded(r)
      => /\ st[r].calls.verify = 1
         /\ MappedFields(st[r].args.verify.profile,
                         st[r].answers.getAttributes.data)
         /\ "rawAttributes" \in DOMAIN st[r].args.verify.profile
         /\ st[r].args.verify.profile.rawAttributes =
              st[r].answers.getAttributes.data

-----------------------------------------------------------------------------
(* C17 *)

\* getAttributes called back with no error and no data (undefined or null):
\* reading data.tokenid raises inside the mapping
MappingRaised(r) ==
  /\ st[r].answers.getAttributes # None
  /\ ~Truthy(st[r].answers.getAttributes.err)
  /\ st[r].answers.getAttributes.data \in {UndefinedObj, NullObj}

\* C17: an exception raised while the fetched attributes are mapped to a
\* profile is caught and ends the request with the outcome Error carrying
\* that exception; nothing leaves the provider callback uncaught and verify
\* is not invoked for the request.
C17_MappingExceptionIsError ==
  \A r \in Reqs :
    MappingRaised(r)
      => /\ Finished(r)
         /\ st[r].outcomes =
              <<Outcome("error",
                        IF st[r].answers.getAttributes.data = NullObj
                          THEN TypeErrorTokenIdNull ELSE TypeErrorTokenId,
                        Undefined)>>
         /\ st[r].thrown = <<>>
         /\ st[r].calls.verify = 0
         /\ st[r].answers.verify = None

\* request 1 fetched attributes, got no error and null for the data, and
\* ended with the TypeError of the mapping as its Error outcome
C17_Witness ==
  /\ MappingRaised(1)
  /\ st[1].answers.getAttributes.data = NullObj
  /\ st[1].calls.getAttributes = 1
  /\ Len(st[1].outcomes) = 1
  /\ st[1].outcomes[1].kind = "error"
  /\ st[1].outcomes[1].a = TypeErrorTokenIdNull


-----------------------------------------------------------------------------
(* Concurrent requests on one strategy *)

\* configurations with the session cookie "sid": the profile is always
\* fetched, or an asynchronous predicate decides
ConcCtorOptions ==
  [openAmBaseUrl    : {BaseUrl},
   callbackUrl      : {AbsCallback},
   openAmRealm      : {Undefined},
   openAmCookieName : {OtherCookieName},
   skipUserProfile  : {Undefined, Function2},
   openAmLoginPage  : {Undefined}]

\* requests with and without code whose session tokens are "ab" and "cd"
ConcRequests ==
  [query   : [error : {Undefined}, code : {Undefined, <<"t","r","u","e">>}],
   headers : [cookie : { Join(<<OtherX, SidPadded>>, <<";", " ">>),
                         Join(<<DefaultTok123, SidCd>>, <<";", " ">>) }]]

\* verify answers at once with a user, or later
ConcVerifyBehaviours ==
  { vb \in VerifyBehaviours :
      \/ vb.mode = "async"
      \/ vb.mode = "sync" /\ vb.err = Null /\ vb.user = User /\ vb.info = Info }

ConcAttributeAnswers ==
  { ans \in AttributeAnswers :
      ans.err = TransportError \/ ans.data = FullAttributes }

ConcConstruct == \E options \in ConcCtorOptions : OpenAmStrategy(options)

\* one handler of request r; the handlers of different requests interleave
ConcStep(r) ==
  \/ \E rq \in ConcRequests :
        Authenticate(r, rq, UndefinedObj, UrlRejected(UndefinedObj))
  \/ \E bool \in {True, False}, vb \in ConcVerifyBehaviours :
        IsTokenValid(r, bool, False, vb)
  \/ \E err \in {Null, VerifyError}, skip \in {True, False},
        vb \in ConcVerifyBehaviours : SkipUserProfile(r, err, skip, vb)
  \/ \E ans \in ConcAttributeAnswers, vb \in ConcVerifyBehaviours :
        GetAttributes(r, ans, vb)
  \/ \E err \in {Null, VerifyError}, user \in {False, User} :
        Verify(r, err, user, Info)

ConcNext == ConcConstruct \/ \E r \in Reqs : ConcStep(r)

ConcSpec == Init /\ [][ConcNext]_vars

-----------------------------------------------------------------------------
(* C18 *)

\* the session token of request r's own Cookie header
OwnToken(r) ==
  CookieValue(ParseCookies(st[r].req.headers.cookie),
              strategy._openAmCookieName)

\* the outcome o of request r follows from r's own request and the answers
\* r's own callbacks were given
OwnOutcome(r, o) ==
  CASE o.kind = "redirect" -> o = LoginRedirect(r)
    [] o.kind = "success"  ->
         /\ st[r].answers.verify # None
         /\ o = Outcome("success", st[r].answers.verify.user,
                        st[r].answers.verify.info)
    [] o.kind = "fail"     ->
         \/ HasError(r) /\ o = Outcome("fail", Undefined, Undefined)
         \/ /\ st[r].answers.verify # None
            /\ o = Outcome("fail", st[r].answers.verify.info, Undefined)
    [] o.kind = "error"    ->
         \/ /\ st[r].answers.verify # None
            /\ o.a = st[r].answers.verify.err
         \/ /\ st[r].answers.getAttributes # None
            /\ o.a \in { InternalOpenAmError("failed to get attributes",
                                             st[r].answers.getAttributes.err),
                         TypeErrorTokenId, TypeErrorTokenIdNull }
         \/ /\ st[r].answers.skipUserProfile # None
            /\ o.a = st[r].answers.skipUserProfile.err
         \/ /\ st[r].calls.verify > 0
            /\ o.a = VerifyException

\* what request r's collaborators were handed, and what r signalled, is r's
\* own; the configuration is the one the constructor left
OwnRequestOnly ==
  /\ ctor = "constructed" => strategy = NewStrategy(ctorOptions)
  /\ \A r \in Reqs :
       Started(r)
         => /\ st[r].calls.isTokenValid > 0
                 => st[r].args.isTokenValid = OwnToken(r)
            /\ st[r].calls.skipUserProfile > 0
                    /\ st[r].args.skipUserProfile # Undefined
                 => st[r].args.skipUserProfile = OwnToken(r)
            /\ st[r].calls.getAttributes > 0
                 => st[r].args.getAttributes = OwnToken(r)
            /\ st[r].calls.verify > 0
                 => /\ st[r].args.verify.req = st[r].req
                    /\ st[r].args.verify.token = OwnToken(r)
            /\ \A i \in DOMAIN st[r].outcomes :
                 OwnOutcome(r, st[r].outcomes[i])

\* a step of one request leaves every other request, and once the strategy
\* is constructed its configuration, as they were
OneRequestPerStep ==
  /\ \A r \in Reqs, q \in Reqs :
       r # q /\ st'[r] # st[r] => st'[q] = st[q]
  /\ ctor = "constructed"
       => /\ strategy' = strategy
          /\ ctorOptions' = ctorOptions
          /\ ctor' = ctor

\* C18: concurrent requests are independent.  However the callbacks of the
\* requests in flight on one strategy interleave, the token and request
\* handed to isTokenValid, getAttributes and verify for a request, and the
\* request's outcome, are those of that request; a step of one request
\* changes no other request; and authenticate never writes the configuration
\* (base URL, realm, cookie name, callback URL, skip option), which stays as
\* the constructor left it.
C18_Independent == []OwnRequestOnly /\ [][OneRequestPerStep]_vars

\* two requests with different tokens were in flight together: request 2
\* started after request 1 and has succeeded with its own token "cd" while
\* request 1 still waits for its attributes, asked for with token "ab"
C18_Witness ==
  /\ st[1].pc = "getAttributes"
  /\ st[1].args.getAttributes = <<"a","b">>
  /\ st[2].pc = "done"
  /\ st[2].calls.verify = 1
  /\ st[2].args.verify.token = <<"c","d">>
  /\ Len(st[2].outcomes) = 1
  /\ st[2].outcomes[1].kind = "success"


-----------------------------------------------------------------------------
(* C19 *)

\* request r has signalled success
Succeeded(r) ==
  \E i \in DOMAIN st[r].outcomes : st[r].outcomes[i].kind = "success"

\* C19: success is signalled for a request only if, earlier in that request,
\* there was no error parameter, there were a code parameter and a non-empty
\* session cookie, isTokenValid answered true for that cookie's token,
\* profile resolution completed without error, and the verify continuation
\* was called with no error and a truthy user.
C19_SuccessOnlyIf ==
  \A r \in Reqs :
    Succeeded(r)
      => /\ ~HasError(r)
         /\ HasCode(r)
         /\ ~NoSessionCookie(r)
         /\ st[r].calls.isTokenValid = 1
         /\ st[r].args.isTokenValid =
              CookieValue(ParseCookies(st[r].req.headers.cookie),
                          strategy._openAmCookieName)
         /\ Truthy(st[r].answers.isTokenValid)
         /\ ProfileResolved(r)
         /\ st[r].calls.verify = 1
         /\ st[r].answers.verify # None
         /\ ~Truthy(st[r].answers.verify.err)
         /\ Truthy(st[r].answers.verify.user)

\* request 1 succeeded with a fetched profile after verify answered later
C19_Witness ==
  /\ Succeeded(1)
  /\ st[1].pc = "done"
  /\ FetchSucceeded(1)
  /\ st[1].answers.getAttributes.data = FullAttributes
  /\ st[1].answers.verify = [err |-> Null, user |-> User, info |-> Undefined]
  /\ st[1].outcomes = <<Outcome("success", User, Undefined)>>

====
